---- MODULE Spec2Model ----
(***************************************************************************)
(* State-machine model of the BusinessChatBox component                    *)
(* (src/Frontend/src/components/Chat.jsx): the React state of the chat     *)
(* session, the browser speech-recognition session, the browser speech-    *)
(* synthesis engine and the inference requests in flight.                  *)
(*                                                                         *)
(* Every handler of the component runs to its end on the UI event loop,    *)
(* and React re-renders before the next user event is handled, so one      *)
(* action is one handler invocation reading the state of the latest        *)
(* render.  The only suspended code is the continuation of sendMessage     *)
(* after `await axios.post`: it keeps the values its closure captured      *)
(* (newMessages), which the model carries in the request in flight.        *)
(*                                                                         *)
(* A string is a sequence of one-character strings.                        *)
(***************************************************************************)
EXTENDS Naturals, Sequences, FiniteSets

VARIABLES
    messages,      \* useState([])      : Seq of [role, content]
    input,         \* useState("")      : the input buffer
    loading,       \* useState(false)
    isListening,   \* useState(false)
    isSpeaking,    \* useState(false)
    mounted,       \* the component is mounted (state setters act)
    hasRec,        \* recognitionRef.current is set (host offers recognition)
    hasSynth,      \* speechSynthesisRef.current is set (host offers synthesis)
    rec,           \* recognition session: "inactive" | "active" | "stopping"
    queue,         \* utterances the synthesis engine holds (texts), the spoken one first
    cancelEvents,  \* end/error callbacks of cancelled utterances not yet delivered
    inflight,      \* axios requests awaiting their response, with the closure's values
    last           \* the handler that ran last and what it surfaced

vars == <<messages, input, loading, isListening, isSpeaking, mounted, hasRec,
          hasSynth, rec, queue, cancelEvents, inflight, last>>

-----------------------------------------------------------------------------
(* Bounds of the model *)

MaxTurns == 2        \* submits accepted in one run
MaxSegments == 2     \* result segments carried by one recognition event
MaxUtterances == 2   \* utterances (queued or cancelled, callback pending) before
                     \* the read-aloud button is no longer pressed

-----------------------------------------------------------------------------
(* Strings *)

IsSpace(c) == c = " "

RECURSIVE TrimStart(_)
TrimStart(s) ==
    IF s = <<>> THEN <<>>
    ELSE IF IsSpace(Head(s)) THEN TrimStart(Tail(s)) ELSE s

RECURSIVE TrimEnd(_)
TrimEnd(s) ==
    IF s = <<>> THEN <<>>
    ELSE IF IsSpace(s[Len(s)]) THEN TrimEnd(SubSeq(s, 1, Len(s) - 1)) ELSE s

\* String.prototype.trim
Trim(s) == TrimEnd(TrimStart(s))

\* the characters of the class [#*_]
IsEmphasis(c) == c \in {"#", "*", "_"}

\* text.replace(/[#*_]/g, '')
RECURSIVE StripMarkdown(_)
StripMarkdown(s) ==
    IF s = <<>> THEN <<>>
    ELSE IF IsEmphasis(Head(s)) THEN StripMarkdown(Tail(s))
         ELSE <<Head(s)>> \o StripMarkdown(Tail(s))

\* Array.prototype.join('') of the segments' transcripts
RECURSIVE JoinTranscripts(_)
JoinTranscripts(segs) ==
    IF segs = <<>> THEN <<>>
    ELSE Head(segs) \o JoinTranscripts(Tail(segs))

\* "⚠ No response received."
NoResponseText == <<"!", "N">>

\* "⚠ Failed to fetch response. Please check your API key or try again later."
errorMessage == <<"!", "F">>

-----------------------------------------------------------------------------
(* Inputs *)

\* values typed into the input box
TypedInputs == { <<>>, <<" ">>, <<" ", "a">> }

\* what is dictated: the transcript of the i-th result segment (its first
\* alternative)
SegmentAt(i) ==
    CASE i % 3 = 1 -> <<"a">>
      [] i % 3 = 2 -> <<" ", "b">>
      [] OTHER -> <<" ">>

\* event.results of one recognition event: with interimResults the session
\* reports the segments heard so far, 1..MaxSegments of them
ResultLists == { [i \in 1..n |-> SegmentAt(i)] : n \in 1..MaxSegments }

\* text of the first part of the first candidate, when it is a non-empty string
ResponseStrings == { <<"*", "k">> }

\* what axios.post settles with: a rejection (network error, non-2xx), or a body
\* whose candidates[0].content.parts[0].text is absent, a string, or not a string
Responses ==
    { [ok |-> FALSE, present |-> FALSE, isString |-> FALSE, text |-> <<>>],
      [ok |-> TRUE,  present |-> FALSE, isString |-> FALSE, text |-> <<>>],
      [ok |-> TRUE,  present |-> TRUE,  isString |-> FALSE, text |-> <<>>],
      [ok |-> TRUE,  present |-> TRUE,  isString |-> TRUE,  text |-> <<>>] }
    \cup { [ok |-> TRUE, present |-> TRUE, isString |-> TRUE, text |-> t] :
             t \in ResponseStrings }

Message(r, c) == [role |-> r, content |-> c]

Ran(op, al, canc) == [op |-> op, alert |-> al, cancelled |-> canc]

-----------------------------------------------------------------------------
(* Initial state *)

Init ==
    /\ messages = <<>>
    /\ input = <<>>
    /\ loading = FALSE
    /\ isListening = FALSE
    /\ isSpeaking = FALSE
    /\ mounted = TRUE
    /\ hasRec \in BOOLEAN
    /\ hasSynth \in BOOLEAN
    /\ rec = "inactive"
    /\ queue = <<>>
    /\ cancelEvents = 0
    /\ inflight = <<>>
    /\ last = Ran("mount", "none", FALSE)

-----------------------------------------------------------------------------
(* The browser's speech engines, as far as the component uses them *)

\* speechSynthesis.speaking: the engine has a current utterance.  speak() on an
\* idle engine makes the utterance current at once (Chromium, Gecko and WebKit
\* agree), so it is true exactly while the engine holds an utterance.
SynthSpeaking == queue # <<>>

\* speechSynthesis.cancel(): empties the queue; every utterance removed gets its
\* end/error callback later, from the event loop
CancelledQueue == <<>>

CancelledEvents == cancelEvents + Len(queue)

\* recognition.stop(): an active session stops listening and ends later; a
\* session that is not active is left alone
RecAfterStop(r) == IF r = "active" THEN "stopping" ELSE r

\* recognition.start() throws InvalidStateError unless the session has ended
StartThrows(r) == r # "inactive"

-----------------------------------------------------------------------------
(* toggleListening and speakText and stopSpeaking, as functions of the state *)

\* no recognition object: alert and return
ToggleUnsupported == ~hasRec

toggleListening ==
    IF ToggleUnsupported
    THEN [rec |-> rec, isListening |-> isListening, alert |-> "recognition",
          threw |-> FALSE]
    ELSE IF isListening
    THEN [rec |-> RecAfterStop(rec), isListening |-> FALSE, alert |-> "none",
          threw |-> FALSE]
    ELSE IF StartThrows(rec)
    THEN [rec |-> rec, isListening |-> isListening, alert |-> "none",
          threw |-> TRUE]
    ELSE [rec |-> "active", isListening |-> TRUE, alert |-> "none",
          threw |-> FALSE]

\* speakText without the capability check
SpeakUnsupportedNever == FALSE

\* no synthesis object: alert and return
SpeakUnsupported == ~hasSynth

\* speakText without the cancel of the ongoing speech
CancelBeforeSpeakNever == FALSE

\* "Cancel any ongoing speech"
CancelBeforeSpeak == SynthSpeaking

speakText(text) ==
    IF SpeakUnsupported
    THEN [queue |-> queue, cancelEvents |-> cancelEvents,
          isSpeaking |-> isSpeaking, alert |-> "synthesis", cancelled |-> FALSE]
    ELSE IF CancelBeforeSpeak
    THEN [queue |-> Append(CancelledQueue, text),
          cancelEvents |-> CancelledEvents,
          isSpeaking |-> TRUE, alert |-> "none", cancelled |-> TRUE]
    ELSE [queue |-> Append(queue, text),
          cancelEvents |-> cancelEvents,
          isSpeaking |-> TRUE, alert |-> "none", cancelled |-> FALSE]

stopSpeaking ==
    IF hasSynth /\ SynthSpeaking
    THEN [queue |-> CancelledQueue,
          cancelEvents |-> CancelledEvents,
          isSpeaking |-> FALSE, alert |-> "none", cancelled |-> TRUE]
    ELSE [queue |-> queue, cancelEvents |-> cancelEvents,
          isSpeaking |-> isSpeaking, alert |-> "none", cancelled |-> FALSE]

\* a state setter acts only while the component is mounted
SetState(old, new) == IF mounted THEN new ELSE old

-----------------------------------------------------------------------------
(* sendMessage *)

\* the guard without its loading disjunct
SendRejectedIgnoringLoading(in, ld) == Trim(in) = <<>>

\* the guard testing the raw buffer
SendRejectedWithoutTrim(in, ld) == in = <<>> \/ ld

\* if (!input.trim() || loading) return;
SendRejected(in, ld) == Trim(in) = <<>> \/ ld

\* the user message taken from the buffer as it is
userMessageUntrimmed(in) == in

\* const userMessage = input.trim();
userMessageOf(in) == Trim(in)

\* the user message put in front of the list
newMessagesPrepended(msgs, in) == <<Message("user", userMessageOf(in))>> \o msgs

\* const newMessages = [...messages, { role: "user", content: userMessage }];
newMessagesOf(msgs, in) == Append(msgs, Message("user", userMessageOf(in)))

\* a sendMessage that calls toggleListening whatever the flag
StopsListeningOnSendAlways == TRUE

\* if (isListening) { toggleListening(); }
StopsListeningOnSend == isListening

\* sendMessage is called by the Send button and by Enter in the input box.  Both
\* are disabled while loading; the call is modelled in every state, as the guard
\* in the code is written for it.
sendMessageRejected ==
    /\ mounted
    /\ SendRejected(input, loading)
    /\ last' = Ran("sendMessage:rejected", "none", FALSE)
    /\ UNCHANGED <<messages, input, loading, isListening, isSpeaking, mounted,
                   hasRec, hasSynth, rec, queue, cancelEvents,
                   inflight>>

sendMessageAccepted ==
    /\ mounted
    /\ ~SendRejected(input, loading)
    /\ Len(messages) < 2 * MaxTurns
    /\ LET newMessages == newMessagesOf(messages, input)
           tg == IF StopsListeningOnSend THEN toggleListening
                 ELSE [rec |-> rec, isListening |-> isListening,
                       alert |-> "none", threw |-> FALSE]
       IN /\ messages' = newMessages
          /\ input' = <<>>
          /\ loading' = TRUE
          /\ rec' = tg.rec
          /\ isListening' = tg.isListening
          \* an exception of toggleListening leaves the function before the request
          /\ inflight' = IF tg.threw THEN inflight
                         ELSE Append(inflight, [newMessages |-> newMessages,
                                                userMessage |-> userMessageOf(input)])
          /\ last' = Ran("sendMessage:accepted", tg.alert, FALSE)
    /\ UNCHANGED <<isSpeaking, mounted, hasRec, hasSynth, queue,
                   cancelEvents>>

\* the text taken as it is, without the placeholder
botResponseWithoutPlaceholder(resp) == resp.text

\* response?.data?.candidates?.[0]?.content?.parts?.[0]?.text || "⚠ No response received."
botResponseOf(resp) ==
    IF resp.present /\ (resp.isString => resp.text # <<>>)
    THEN resp.text
    ELSE NoResponseText

\* a body without the text treated as a failure too
EntersCatchOnAbsentText(resp) == ~resp.ok \/ ~resp.present \/ ~resp.isString

\* the catch block is entered when axios.post rejects, and when
\* botResponse.replace is not a function (the text is not a string)
EntersCatch(resp) == ~resp.ok \/ (resp.present /\ ~resp.isString)

\* content of the assistant message the last setMessages of the turn leaves
AssistantContent(resp) ==
    IF EntersCatch(resp) THEN errorMessage ELSE botResponseOf(resp)

\* the assistant content spoken as it is
SpokenTextUnstripped(resp) == AssistantContent(resp)

\* argument of the speakText call of the turn
SpokenText(resp) ==
    IF EntersCatch(resp) THEN errorMessage ELSE StripMarkdown(botResponseOf(resp))

\* setLoading(false) at the end of the try block only
LoadingAfterSettleTryOnly(resp) == EntersCatch(resp)

\* finally { setLoading(false); }
LoadingAfterSettle(resp) == FALSE

RemoveAt(s, i) == SubSeq(s, 1, i - 1) \o SubSeq(s, i + 1, Len(s))

\* the continuation of sendMessage after the await: try / catch / finally
sendMessageSettled ==
    \E i \in 1..Len(inflight), resp \in Responses :
      LET req == inflight[i]
          sp == speakText(SpokenText(resp))
      IN /\ inflight' = RemoveAt(inflight, i)
         /\ messages' = SetState(messages,
                           Append(req.newMessages,
                                  Message("assistant", AssistantContent(resp))))
         /\ loading' = SetState(loading, LoadingAfterSettle(resp))
         /\ queue' = sp.queue
         /\ cancelEvents' = sp.cancelEvents
         /\ isSpeaking' = SetState(isSpeaking, sp.isSpeaking)
         /\ last' = [op |-> IF EntersCatch(resp) THEN "sendMessage:failed"
                             ELSE "sendMessage:answered",
                     alert |-> sp.alert, cancelled |-> sp.cancelled,
                     resp |-> resp]
         /\ UNCHANGED <<input, isListening, mounted, hasRec, hasSynth, rec>>

-----------------------------------------------------------------------------
(* The other handlers *)

\* onChange={(e) => setInput(e.target.value)}; the box is disabled while loading
onChange ==
    \E v \in TypedInputs :
      /\ mounted
      /\ ~loading
      /\ input' = v
      /\ last' = Ran("onChange", "none", FALSE)
      /\ UNCHANGED <<messages, loading, isListening, isSpeaking, mounted, hasRec,
                     hasSynth, rec, queue, cancelEvents, inflight>>

\* the microphone button
toggleListeningClicked ==
    /\ mounted
    /\ LET tg == toggleListening
       IN /\ rec' = tg.rec
          /\ isListening' = tg.isListening
          /\ last' = Ran(IF tg.threw THEN "toggleListening:threw"
                         ELSE "toggleListening", tg.alert, FALSE)
    /\ UNCHANGED <<messages, input, loading, isSpeaking, mounted, hasRec,
                   hasSynth, queue, cancelEvents, inflight>>

\* the transcript recognition.onresult computes from event.results
transcriptOf(results) == JoinTranscripts(results)

\* the transcript added to what the buffer holds
InputAfterResultAppended(old, results) == old \o transcriptOf(results)

\* what onresult leaves in the input buffer
InputAfterResult(old, results) == transcriptOf(results)

\* recognition.onresult: a session delivers results while it is active and, after
\* stop(), until it has ended
onresult ==
    \E results \in ResultLists :
      /\ mounted
      /\ hasRec
      /\ rec \in {"active", "stopping"}
      /\ input' = InputAfterResult(input, results)
      /\ last' = [op |-> "onresult", alert |-> "none", cancelled |-> FALSE,
                  results |-> results]
      /\ UNCHANGED <<messages, loading, isListening, isSpeaking, mounted, hasRec,
                     hasSynth, rec, queue, cancelEvents, inflight>>

\* an onerror that leaves the flag alone
ListeningAfterErrorKept(l) == l

\* what recognition.onerror leaves in isListening
ListeningAfterError(l) == FALSE

\* recognition.onerror; the session ends with the error
onerror ==
    /\ mounted
    /\ hasRec
    /\ rec \in {"active", "stopping"}
    /\ isListening' = ListeningAfterError(isListening)
    /\ rec' = "inactive"
    /\ last' = Ran("onerror", "none", FALSE)
    /\ UNCHANGED <<messages, input, loading, isSpeaking, mounted, hasRec,
                   hasSynth, queue, cancelEvents, inflight>>

\* the session ends (after stop(), or on its own); the component sets no onend
recognitionEnds ==
    /\ rec \in {"active", "stopping"}
    /\ rec' = "inactive"
    /\ last' = Ran("recognitionEnds", "none", FALSE)
    /\ UNCHANGED <<messages, input, loading, isListening, isSpeaking, mounted,
                   hasRec, hasSynth, queue, cancelEvents, inflight>>

\* the read-aloud button of an assistant message:
\* isSpeaking ? stopSpeaking() : speakText(msg.content.replace(/[#*_]/g, ''))
readAloudClicked ==
    \E i \in 1..Len(messages) :
      /\ mounted
      /\ messages[i].role = "assistant"
      /\ Len(queue) + cancelEvents < MaxUtterances
      /\ LET sp == IF isSpeaking THEN stopSpeaking
                   ELSE speakText(StripMarkdown(messages[i].content))
         IN /\ queue' = sp.queue
            /\ cancelEvents' = sp.cancelEvents
            /\ isSpeaking' = sp.isSpeaking
            /\ last' = Ran(IF isSpeaking THEN "stopSpeaking" ELSE "readAloud",
                           sp.alert, sp.cancelled)
      /\ UNCHANGED <<messages, input, loading, isListening, mounted, hasRec,
                     hasSynth, rec, inflight>>

\* the button pressed while it still shows "Stop speaking": the utterance has
\* ended and the render that follows setIsSpeaking(false) has not run yet, so
\* the handler of the previous render calls stopSpeaking on an idle engine
stopSpeakingClickedLate ==
    \E i \in 1..Len(messages) :
      /\ mounted
      /\ messages[i].role = "assistant"
      /\ hasSynth
      /\ ~SynthSpeaking
      /\ LET sp == stopSpeaking
         IN /\ queue' = sp.queue
            /\ cancelEvents' = sp.cancelEvents
            /\ isSpeaking' = sp.isSpeaking
            /\ last' = Ran("stopSpeaking", sp.alert, sp.cancelled)
      /\ UNCHANGED <<messages, input, loading, isListening, mounted, hasRec,
                     hasSynth, rec, inflight>>

\* utterance.onend / utterance.onerror = () => setIsSpeaking(false)
SpeakingAfterEnd(s) == FALSE

\* the current utterance ends, or fails: its onend / onerror runs
utteranceEnds ==
    /\ queue # <<>>
    /\ queue' = Tail(queue)
    /\ isSpeaking' = SetState(isSpeaking, SpeakingAfterEnd(isSpeaking))
    /\ last' = Ran("utteranceEnds", "none", FALSE)
    /\ UNCHANGED <<messages, input, loading, isListening, mounted, hasRec,
                   hasSynth, rec, cancelEvents, inflight>>

\* the onend / onerror of a cancelled utterance runs
cancelledUtteranceEnds ==
    /\ cancelEvents > 0
    /\ cancelEvents' = cancelEvents - 1
    /\ isSpeaking' = SetState(isSpeaking, SpeakingAfterEnd(isSpeaking))
    /\ last' = Ran("cancelledUtteranceEnds", "none", FALSE)
    /\ UNCHANGED <<messages, input, loading, isListening, mounted, hasRec,
                   hasSynth, rec, queue, inflight>>

\* a cleanup that calls stop() without looking at the ref
CleanupStopsRecognitionAlways == TRUE

\* if (recognitionRef.current) recognitionRef.current.stop();
CleanupStopsRecognition == hasRec

\* a cleanup that leaves the speech alone
CleanupCancelsSpeechNever == FALSE

\* if (speechSynthesisRef.current && speechSynthesisRef.current.speaking) cancel();
CleanupCancelsSpeech == hasSynth /\ SynthSpeaking

\* the cleanup of the mount effect; stop() on a ref that is not set is a
\* TypeError, which ends the cleanup
unmount ==
    /\ mounted
    /\ mounted' = FALSE
    /\ LET threw == CleanupStopsRecognition /\ ~hasRec
           canc == ~threw /\ CleanupCancelsSpeech
       IN /\ rec' = IF CleanupStopsRecognition /\ ~threw
                    THEN RecAfterStop(rec) ELSE rec
          /\ queue' = IF canc THEN CancelledQueue ELSE queue
          /\ cancelEvents' = IF canc THEN CancelledEvents ELSE cancelEvents
          /\ last' = Ran(IF threw THEN "unmount:threw" ELSE "unmount",
                         "none", canc)
    /\ UNCHANGED <<messages, input, loading, isListening, isSpeaking, hasRec,
                   hasSynth, inflight>>

-----------------------------------------------------------------------------

Next ==
    \/ onChange
    \/ sendMessageRejected
    \/ sendMessageAccepted
    \/ sendMessageSettled
    \/ toggleListeningClicked
    \/ onresult
    \/ onerror
    \/ recognitionEnds
    \/ readAloudClicked
    \/ stopSpeakingClickedLate
    \/ utteranceEnds
    \/ cancelledUtteranceEnds
    \/ unmount

Spec == Init /\ [][Next]_vars

-----------------------------------------------------------------------------
(* Properties *)

\* the steps that are a call of sendMessage
SendOps == {"sendMessage:rejected", "sendMessage:accepted"}

\* the steps that are the continuation of sendMessage after the await
SettleOps == {"sendMessage:answered", "sendMessage:failed"}

\* C1: at most one inference request is in flight in every reachable state, and
\* a call of sendMessage while loading is true changes neither the messages, the
\* input buffer nor a flag and issues no request.
C1_OneRequestInFlight ==
    /\ [](Len(inflight) <= 1)
    /\ [][(last'.op \in SendOps /\ loading) =>
            UNCHANGED <<messages, input, loading, isListening, isSpeaking,
                        inflight, rec, queue, cancelEvents>>]_vars

\* a call of sendMessage was turned down while a request was in flight and the
\* buffer held text
C1_Witness ==
    /\ last.op = "sendMessage:rejected"
    /\ loading
    /\ Trim(input) # <<>>
    /\ Len(inflight) = 1

\* C2: a call of sendMessage with an empty or whitespace-only buffer leaves the
\* messages and loading as they are and issues no request.
C2_EmptySubmitIsNoOp ==
    [][(last'.op \in SendOps /\ Trim(input) = <<>>) =>
         /\ UNCHANGED <<messages, loading, inflight>>
         /\ (~loading => ~loading')]_vars

\* sendMessage was called on a whitespace-only buffer while idle
C2_Witness ==
    /\ last.op = "sendMessage:rejected"
    /\ input # <<>>
    /\ Trim(input) = <<>>
    /\ ~loading
    /\ inflight = <<>>

\* the message the turn in progress ended the list with
LastMessage == messages[Len(messages)]

\* the response is a body carrying a non-empty string as its text
Succeeds(resp) == resp.ok /\ resp.present /\ resp.isString /\ resp.text # <<>>

\* the request is rejected: network error or non-2xx status
TransportError(resp) == ~resp.ok

\* the body lacks candidates[0].content.parts[0].text
ShapeError(resp) == resp.ok /\ ~resp.present

\* C3: an accepted submit appends one user Message holding the trimmed input;
\* when its request succeeds the continuation appends one assistant Message
\* holding the response text right after it; no other step changes the list.
C3_SuccessfulTurnAppendsPair ==
    [][/\ (last'.op = "sendMessage:accepted" =>
             messages' = Append(messages, Message("user", Trim(input))))
       /\ ((last'.op \in SettleOps /\ mounted /\ Succeeds(last'.resp)) =>
             /\ messages # <<>>
             /\ LastMessage.role = "user"
             /\ messages' = Append(messages,
                                   Message("assistant", last'.resp.text)))
       /\ (last'.op \notin SendOps \cup SettleOps => messages' = messages)
       /\ (last'.op = "sendMessage:rejected" => messages' = messages)]_vars

\* a turn whose input had surrounding whitespace was answered
C3_Witness ==
    /\ last.op = "sendMessage:answered"
    /\ Succeeds(last.resp)
    /\ mounted
    /\ Len(messages) = 4
    /\ messages[3] = Message("user", <<"a", " ", "b">>)
    /\ messages[4] = Message("assistant", last.resp.text)

\* C4, as claimed: a transport error and a body without the text both leave
\* the fixed fallback string as the assistant Message.
C4_Original ==
    [][(last'.op \in SettleOps /\ mounted
          /\ (TransportError(last'.resp) \/ ShapeError(last'.resp))) =>
         messages' = Append(messages, Message("assistant", errorMessage))]_vars

\* C4, amended: a failed or incomplete turn appends one assistant Message after
\* the turn's user Message; it is the fixed fallback string after a transport
\* error and the fixed placeholder string when the body lacks the text.
C4_FailedTurnAppendsPair ==
    [][(last'.op \in SettleOps /\ mounted) =>
         /\ (TransportError(last'.resp) =>
               /\ messages # <<>>
               /\ LastMessage.role = "user"
               /\ messages' = Append(messages,
                                     Message("assistant", errorMessage)))
         /\ (ShapeError(last'.resp) =>
               /\ messages # <<>>
               /\ LastMessage.role = "user"
               /\ messages' = Append(messages,
                                     Message("assistant", NoResponseText)))]_vars

\* a body without the text was received and the placeholder was appended
C4_Witness ==
    /\ last.op = "sendMessage:answered"
    /\ ShapeError(last.resp)
    /\ mounted
    /\ Len(messages) >= 2
    /\ messages[Len(messages) - 1].role = "user"
    /\ LastMessage = Message("assistant", NoResponseText)

\* C5: while the component is mounted loading is true exactly while a request
\* is outstanding, and only an accepted submit makes it true.
C5_LoadingIffRequestOutstanding ==
    /\ [](mounted => (loading <=> inflight # <<>>))
    /\ [][(~loading /\ loading') => last'.op = "sendMessage:accepted"]_vars

\* a failed turn is over: loading is false again and nothing is outstanding
C5_Witness ==
    /\ last.op = "sendMessage:failed"
    /\ mounted
    /\ ~loading
    /\ inflight = <<>>

\* the steps that call speakText
SpeakOps == {"readAloud"} \cup SettleOps

\* the sequence p is a prefix of the sequence q
IsPrefix(p, q) == Len(p) <= Len(q) /\ SubSeq(q, 1, Len(p)) = p

\* C6: the synthesis engine never holds more than one utterance, and a call of
\* speakText while an utterance is playing cancels it, whether the call comes
\* from the end of a turn or from the read-aloud button: afterwards the engine
\* holds the new utterance only.
C6_OneUtteranceAtATime ==
    /\ [](Len(queue) <= 1)
    /\ [][(last'.op \in SpeakOps /\ hasSynth /\ queue # <<>>) =>
            /\ last'.cancelled
            /\ Len(queue') = 1
            /\ cancelEvents' = cancelEvents + Len(queue)]_vars

\* the read-aloud button started an utterance over one that was playing
C6_Witness ==
    /\ last.op = "readAloud"
    /\ last.cancelled
    /\ Len(queue) = 1
    /\ cancelEvents > 0

\* C7: every step leaves the message list of the state before it as a prefix of
\* the message list after it.
C7_MessagesAppendOnly ==
    [][IsPrefix(messages, messages')]_vars

\* two turns are complete: the second was appended after the first
C7_Witness ==
    /\ Len(messages) = 4
    /\ messages[1].role = "user"
    /\ messages[2].role = "assistant"
    /\ messages[3].role = "user"
    /\ messages[4].role = "assistant"
    /\ last.op \in SettleOps

\* C8: after a recognition result event the input buffer is the concatenation,
\* in order, of the transcripts of that event's segments and nothing else.
C8_ResultOverwritesInput ==
    last.op = "onresult" =>
      /\ Len(input) = Len(JoinTranscripts(last.results))
      /\ \A k \in 1..Len(last.results) :
           SubSeq(input,
                  Len(JoinTranscripts(SubSeq(last.results, 1, k - 1))) + 1,
                  Len(JoinTranscripts(SubSeq(last.results, 1, k))))
             = last.results[k]

\* an event carrying two segments left their concatenation in the buffer
C8_Witness ==
    /\ last.op = "onresult"
    /\ Len(last.results) = 2
    /\ input = <<"a", " ", "b">>

\* C9: a recognition error sets listening to false and leaves the input buffer,
\* the messages, loading and speaking as they are.
C9_ErrorClearsListeningOnly ==
    [][last'.op = "onerror" =>
         /\ ~isListening'
         /\ UNCHANGED <<input, messages, loading, isSpeaking>>]_vars

\* a recognition error arrived while a transcript was in the buffer
C9_Witness ==
    /\ last.op = "onerror"
    /\ ~isListening
    /\ rec = "inactive"
    /\ input = <<"a">>

\* C10: without a recognition object the microphone button alerts and changes
\* nothing; without a synthesis object speakText alerts, starts no utterance
\* and leaves speaking false.
C10_UnsupportedAlertsOnly ==
    [][/\ ((last'.op = "toggleListening" /\ ~hasRec) =>
             /\ last'.alert = "recognition"
             /\ UNCHANGED <<messages, input, loading, isListening, isSpeaking,
                            rec, queue, cancelEvents, inflight>>)
       /\ ((last'.op \in SpeakOps /\ ~hasSynth) =>
             /\ last'.alert = "synthesis"
             /\ ~isSpeaking'
             /\ queue' = <<>>
             /\ UNCHANGED <<isSpeaking, queue, cancelEvents, input,
                            isListening, rec>>)
       /\ (last'.op = "readAloud" /\ ~hasSynth =>
             UNCHANGED <<messages, loading, inflight>>)]_vars

\* on a host without recognition the microphone button raised the alert
C10_Witness ==
    /\ ~hasRec
    /\ last.op = "toggleListening"
    /\ last.alert = "recognition"
    /\ ~isListening
    /\ rec = "inactive"
    /\ messages # <<>>

\* the steps that are the cleanup of the mount effect
UnmountOps == {"unmount", "unmount:threw"}

C12_TeardownStopsEngines ==
    [][(mounted /\ ~mounted') =>
         /\ rec' # "active"
         /\ (rec = "active" => rec' = "stopping")
         /\ queue' = <<>>
         /\ cancelEvents' = cancelEvents + Len(queue)]_vars

\* the component was torn down while listening and speaking
C12_Witness ==
    /\ last.op = "unmount"
    /\ last.cancelled
    /\ rec = "stopping"
    /\ isListening
    /\ isSpeaking
    /\ queue = <<>>

\* the steps in which something failed: the inference, the recognition, or a
\* capability that is missing
IsFailure(l) ==
    \/ l.op \in {"sendMessage:failed", "onerror", "toggleListening:threw"}
    \/ l.alert # "none"

\* C13: no failure ends the session.  A failure never leaves loading true
\* without a request outstanding, the completion of the request clears loading
\* whatever its outcome, and a call of sendMessage with text in the buffer while
\* loading is false is accepted and starts a turn.
C13_SessionSurvivesFailure ==
    /\ [][(IsFailure(last') /\ mounted) =>
            (loading' => inflight' # <<>>)]_vars
    /\ [][(last'.op \in SettleOps /\ mounted) =>
            (~loading' /\ inflight' = <<>>)]_vars
    /\ [][(last'.op \in SendOps /\ ~loading /\ Trim(input) # <<>>) =>
            /\ last'.op = "sendMessage:accepted"
            /\ loading'
            /\ Len(inflight') = 1
            /\ Len(messages') = Len(messages) + 1]_vars

\* after a failed turn a second submit was accepted
C13_Witness ==
    /\ last.op = "sendMessage:accepted"
    /\ Len(messages) = 3
    /\ messages[2] = Message("assistant", errorMessage)
    /\ loading
    /\ Len(inflight) = 1

\* C14: a response whose body lacks the text does not fail the turn: the
\* assistant Message appended is the placeholder, loading is cleared and the
\* placeholder is the text handed to the synthesis engine.
C14_AbsentTextYieldsPlaceholder ==
    [][(last'.op \in SettleOps /\ mounted /\ ShapeError(last'.resp)) =>
         /\ last'.op = "sendMessage:answered"
         /\ messages' = Append(messages, Message("assistant", NoResponseText))
         /\ ~loading'
         /\ (hasSynth => (queue' = <<NoResponseText>> /\ isSpeaking'))]_vars

\* the placeholder was appended and is being spoken
C14_Witness ==
    /\ last.op = "sendMessage:answered"
    /\ ShapeError(last.resp)
    /\ mounted
    /\ LastMessage = Message("assistant", NoResponseText)
    /\ queue = <<NoResponseText>>
    /\ isSpeaking
    /\ ~loading

\* C15: the end of every turn, answered or failed, hands exactly one utterance
\* to the synthesis engine, whose text is the content of the assistant Message
\* just appended without its '#', '*' and '_'; a call of sendMessage, rejected
\* or accepted, hands it none.
C15_TurnSpeaksAssistantContent ==
    /\ [][(last'.op \in SettleOps /\ mounted /\ hasSynth) =>
            /\ messages' # <<>>
            /\ messages'[Len(messages')].role = "assistant"
            /\ queue' = <<StripMarkdown(messages'[Len(messages')].content)>>
            /\ \A k \in 1..Len(queue') : ~IsEmphasis(queue'[1][k])
            /\ cancelEvents' = cancelEvents + Len(queue)]_vars
    /\ [][last'.op \in SendOps =>
            UNCHANGED <<queue, cancelEvents, isSpeaking>>]_vars

\* an answer with emphasis characters was appended and is spoken without them
C15_Witness ==
    /\ last.op = "sendMessage:answered"
    /\ mounted
    /\ LastMessage = Message("assistant", <<"*", "k">>)
    /\ queue = <<<<"k">>>>

\* C16: an accepted submit clears the input buffer and sets loading; when
\* listening was true it stops the recognition session and clears listening,
\* and when listening was false it leaves the session and the flag alone.
C16_AcceptedSubmitStopsListening ==
    [][last'.op = "sendMessage:accepted" =>
         /\ input' = <<>>
         /\ loading'
         /\ Len(inflight') = Len(inflight) + 1
         /\ ~isListening'
         /\ (isListening => rec' # "active")
         /\ (~isListening => rec' = rec)]_vars

\* a submit was accepted while listening: the session was told to stop
C16_Witness ==
    /\ last.op = "sendMessage:accepted"
    /\ rec = "stopping"
    /\ ~isListening
    /\ loading
    /\ input = <<>>

\* C17: while the component is mounted and the synthesis engine is speaking an
\* utterance, isSpeaking is true.
C17_SpeakingFlagMatchesEngine ==
    (mounted /\ queue # <<>>) => isSpeaking

\* C18: while the component is mounted, isListening is true exactly when the
\* recognition session is active.
C18_ListeningFlagMatchesSession ==
    mounted => (isListening <=> rec = "active")

\* C19: a recognition result event that arrives while isListening is false
\* leaves the input buffer as it is.
C19_ResultsOnlyWhileListening ==
    [][(last'.op = "onresult" /\ ~isListening) => input' = input]_vars

\* C20: once the component is unmounted the synthesis engine holds no
\* utterance: none is started after the cleanup has cancelled the speech.
C20_NoSpeechAfterTeardown ==
    ~mounted => queue = <<>>

====
